---------------------------- MODULE Spec2Model ----------------------------
(***************************************************************************)
(* Model of the maker-chips generator: the disk / marking / center-disk    *)
(* geometry (src/src/disk.ts), the assembler (src/src/assembly.ts), the    *)
(* 3MF exporter (src/src/threeMfExport.ts) and the CLI driver (src/cli.ts).*)
(*                                                                         *)
(* Lengths are fixed-point integers: one unit is 1/20 mm, so that the      *)
(* 0.1 mm sizeOffset and every "/ 2" of the code are exact.  A shape is    *)
(* represented by its axis-aligned bounding box; a box carries a common    *)
(* denominator `den` (real coordinate = numerator / den) because           *)
(* scaleToSizeAndCenter scales by a ratio.                                 *)
(***************************************************************************)
EXTENDS Integers, Sequences, FiniteSets, TLC

\* ------------------------------------------------------------------ bounds
MaxRadius == 2
MaxHeight == 2
MaxRounding == 1
MaxCenter == 3
MaxQrSize == 1
MaxQrDepth == 2
MaxImgHeight == 1
MaxPartsCount == 12

MaxPatternSize == 3

MaxTarget == 2

MaxRadiusTens == 3

\* ------------------------------------------------------------- arithmetic
Mm(x) == 20 * x

Min(a, b) == IF a <= b THEN a ELSE b

Max(a, b) == IF a >= b THEN a ELSE b

Abs(a) == IF a < 0 THEN 0 - a ELSE a

\* ---------------------------------------------------- 2D cross-sections
\* A CrossSection is abstracted to its bounds; `empty` marks the empty region.
EmptyCs == [empty |-> TRUE, lo |-> <<0, 0>>, hi |-> <<0, 0>>, den |-> 1]

\* CrossSection.circle(r, n): centred on the origin, empty for r <= 0.
Circle(r) ==
    IF r <= 0 THEN EmptyCs
    ELSE [empty |-> FALSE, lo |-> <<0 - r, 0 - r>>, hi |-> <<r, r>>, den |-> 1]

\* CrossSection.square([w, h], center): empty when it has no area.
Square(w, h, center) ==
    IF w <= 0 \/ h <= 0 THEN EmptyCs
    ELSE IF center
         THEN [empty |-> FALSE, lo |-> <<0 - w \div 2, 0 - h \div 2>>,
               hi |-> <<w \div 2, h \div 2>>, den |-> 1]
         ELSE [empty |-> FALSE, lo |-> <<0, 0>>, hi |-> <<w, h>>, den |-> 1]

\* CrossSection.translate([dx, dy]) (dx, dy in units, scaled to the denominator).
CsTranslate(cs, dx, dy) ==
    IF cs.empty THEN cs
    ELSE [cs EXCEPT !.lo = <<cs.lo[1] + dx * cs.den, cs.lo[2] + dy * cs.den>>,
                    !.hi = <<cs.hi[1] + dx * cs.den, cs.hi[2] + dy * cs.den>>]

\* CrossSection.add: bounds of the union (operands of denominator 1).
CsAdd(a, b) ==
    IF a.empty THEN b
    ELSE IF b.empty THEN a
    ELSE [empty |-> FALSE,
          lo |-> <<Min(a.lo[1], b.lo[1]), Min(a.lo[2], b.lo[2])>>,
          hi |-> <<Max(a.hi[1], b.hi[1]), Max(a.hi[2], b.hi[2])>>,
          den |-> 1]

\* ------------------------------------------------------------ 3D solids
\* A Manifold is abstracted to its bounding box, the generator that made it
\* (label), the translation the assembler applied to it (moved, in units) and
\* whether the assembler mirrored it.
Solid(label, lo, hi, den, empty) ==
    [label |-> label, lo |-> lo, hi |-> hi, den |-> den, empty |-> empty,
     moved |-> <<0, 0, 0>>, mirrored |-> FALSE]

\* CrossSection.extrude(h).
Extrude(cs, h, label) ==
    Solid(label, <<cs.lo[1], cs.lo[2], 0>>, <<cs.hi[1], cs.hi[2], h * cs.den>>,
          cs.den, cs.empty \/ h <= 0)

\* CrossSection.revolve(n): a full turn about the profile's y axis; only the
\* part of the profile with x >= 0 is swept.
Revolve(cs, label) ==
    IF cs.empty \/ cs.hi[1] <= 0
    THEN Solid(label, <<0, 0, 0>>, <<0, 0, 0>>, 1, TRUE)
    ELSE Solid(label, <<0 - cs.hi[1], 0 - cs.hi[1], cs.lo[2]>>,
               <<cs.hi[1], cs.hi[1], cs.hi[2]>>, cs.den, FALSE)

\* Manifold.translate([dx, dy, dz]).
Translate(s, d) ==
    [s EXCEPT !.lo = <<s.lo[1] + d[1] * s.den, s.lo[2] + d[2] * s.den,
                       s.lo[3] + d[3] * s.den>>,
              !.hi = <<s.hi[1] + d[1] * s.den, s.hi[2] + d[2] * s.den,
                       s.hi[3] + d[3] * s.den>>,
              !.moved = <<s.moved[1] + d[1], s.moved[2] + d[2], s.moved[3] + d[3]>>]

\* Manifold.mirror([1, 0, 0]): reflection in the plane x = 0.
MirrorX(s) ==
    [s EXCEPT !.lo = <<0 - s.hi[1], s.lo[2], s.lo[3]>>,
              !.hi = <<0 - s.lo[1], s.hi[2], s.hi[3]>>,
              !.mirrored = TRUE]

\* -------------------------------------------------------------- disk.ts
\* Variant: the rounding radius is used as given.
ClampRoundingNone(roundingRadius, height) == roundingRadius

\* Math.min(roundingRadius, height / 2)
ClampRounding(roundingRadius, height) == Min(roundingRadius, height \div 2)

\* Variant: the profile without the rectangle from the axis to the rim.
generateDiskProfileNoFill(radius, roundingRadius, height) ==
    LET clampedRounding == ClampRounding(roundingRadius, height)
        circle1 == CsTranslate(Circle(clampedRounding),
                               radius - clampedRounding, clampedRounding)
        circle2 == CsTranslate(Circle(clampedRounding),
                               radius - clampedRounding, height - clampedRounding)
        fillRect == CsTranslate(Square(clampedRounding, height - clampedRounding * 2, TRUE),
                                radius - clampedRounding \div 2, height \div 2)
    IN  CsAdd(CsAdd(circle1, circle2), fillRect)

generateDiskProfile(radius, roundingRadius, height) ==
    LET clampedRounding == ClampRounding(roundingRadius, height)
        circle1 == CsTranslate(Circle(clampedRounding),
                               radius - clampedRounding, clampedRounding)
        circle2 == CsTranslate(Circle(clampedRounding),
                               radius - clampedRounding, height - clampedRounding)
        fillRect == CsTranslate(Square(clampedRounding, height - clampedRounding * 2, TRUE),
                                radius - clampedRounding \div 2, height \div 2)
        fillRect2 == Square(radius - clampedRounding, height, FALSE)
    IN  CsAdd(CsAdd(CsAdd(circle1, circle2), fillRect), fillRect2)

roundedDisk(radius, roundingRadius, height) ==
    Revolve(generateDiskProfile(radius, roundingRadius, height), "disk")

generateCenterDisk(centerCircleRadius, height) ==
    Extrude(Circle(centerCircleRadius), height, "center")


\* ------------------------------------------------- pattern registry, utils
\* The keys of embeddedSvgs (the registry file itself is not among the
\* sources; two of its twenty identifiers are kept).
embeddedSvgs == {"makerChipV1", "makerChipV2"}

\* Bounds of the polygons svgToPolygons samples from a registered pattern, in
\* SVG coordinates (y grows downwards): <<minX, minY, maxX, maxY>>.
svgToPolygons(shapeName) ==
    IF shapeName = "makerChipV1" THEN <<0, 0, 4, 4>> ELSE <<1, 0, 5, 2>>

\* Variant: the lookup never fails.
UnknownShapeNever(shapeName) == FALSE

\* parseSvgToCrossSection: whether the lookup fails (the function throws).
UnknownShape(shapeName) == shapeName \notin embeddedSvgs

\* The Error message of parseSvgToCrossSection: the name and the registry keys.
UnknownShapeError(shapeName) ==
    [kind |-> "Unknown shape", shape |-> shapeName, available |-> embeddedSvgs]

\* parseSvgToCrossSection on a registered name: every point's y is negated.
parseSvgToCrossSection(shapeName) ==
    LET b == svgToPolygons(shapeName)
    IN  [empty |-> FALSE, lo |-> <<b[1], 0 - b[4]>>, hi |-> <<b[3], 0 - b[2]>>,
         den |-> 1]

\* Variant: the larger of the two ratios is the factor.
scaleToSizeAndCenterMax(crossSection, targetWidth, targetHeight) ==
    LET currentWidth == crossSection.hi[1] - crossSection.lo[1]
        currentHeight == crossSection.hi[2] - crossSection.lo[2]
        useX == targetWidth * currentHeight >= targetHeight * currentWidth
        num == IF useX THEN targetWidth ELSE targetHeight
        dnm == IF useX THEN currentWidth ELSE currentHeight
        sLo == <<crossSection.lo[1] * num, crossSection.lo[2] * num>>
        sHi == <<crossSection.hi[1] * num, crossSection.hi[2] * num>>
        scaledWidth == sHi[1] - sLo[1]
        scaledHeight == sHi[2] - sLo[2]
        offsetX == (0 - sLo[1]) - scaledWidth \div 2
        offsetY == (0 - sLo[2]) - scaledHeight \div 2
    IN  IF currentWidth = 0 \/ currentHeight = 0 THEN crossSection
        ELSE [empty |-> crossSection.empty,
              lo |-> <<sLo[1] + offsetX, sLo[2] + offsetY>>,
              hi |-> <<sHi[1] + offsetX, sHi[2] + offsetY>>,
              den |-> dnm]

\* Variant: no early return for a zero width or height.
scaleToSizeAndCenterNoGuard(crossSection, targetWidth, targetHeight) ==
    LET currentWidth == crossSection.hi[1] - crossSection.lo[1]
        currentHeight == crossSection.hi[2] - crossSection.lo[2]
        useX == targetWidth * currentHeight <= targetHeight * currentWidth
        num == IF useX THEN targetWidth ELSE targetHeight
        dnm == IF useX THEN currentWidth ELSE currentHeight
        sLo == <<crossSection.lo[1] * num, crossSection.lo[2] * num>>
        sHi == <<crossSection.hi[1] * num, crossSection.hi[2] * num>>
        scaledWidth == sHi[1] - sLo[1]
        scaledHeight == sHi[2] - sLo[2]
        offsetX == (0 - sLo[1]) - scaledWidth \div 2
        offsetY == (0 - sLo[2]) - scaledHeight \div 2
    IN  [empty |-> crossSection.empty,
         lo |-> <<sLo[1] + offsetX, sLo[2] + offsetY>>,
         hi |-> <<sHi[1] + offsetX, sHi[2] + offsetY>>,
         den |-> dnm]

\* scaleToSizeAndCenter: one factor min(targetWidth / w, targetHeight / h) for
\* both axes, then the bounds' centre moved to the origin.  The factor is the
\* ratio num / dnm; the result's coordinates are numerators over dnm.
scaleToSizeAndCenter(crossSection, targetWidth, targetHeight) ==
    LET currentWidth == crossSection.hi[1] - crossSection.lo[1]
        currentHeight == crossSection.hi[2] - crossSection.lo[2]
        useX == targetWidth * currentHeight <= targetHeight * currentWidth
        num == IF useX THEN targetWidth ELSE targetHeight
        dnm == IF useX THEN currentWidth ELSE currentHeight
        sLo == <<crossSection.lo[1] * num, crossSection.lo[2] * num>>
        sHi == <<crossSection.hi[1] * num, crossSection.hi[2] * num>>
        scaledWidth == sHi[1] - sLo[1]
        scaledHeight == sHi[2] - sLo[2]
        offsetX == (0 - sLo[1]) - scaledWidth \div 2
        offsetY == (0 - sLo[2]) - scaledHeight \div 2
    IN  IF currentWidth = 0 \/ currentHeight = 0 THEN crossSection
        ELSE [empty |-> crossSection.empty,
              lo |-> <<sLo[1] + offsetX, sLo[2] + offsetY>>,
              hi |-> <<sHi[1] + offsetX, sHi[2] + offsetY>>,
              den |-> dnm]

\* roundDiskEdges: original minus (largerDisk minus roundedDisk).  What is
\* left of a centred original is its part inside the rounded disk, and its
\* part outside the larger disk when its corners reach beyond radius + 10.
roundDiskEdges(original, radius, roundingRadius, height) ==
    LET offset == Mm(10)
        largerDisk == Revolve(Square(radius + offset, height + offset, FALSE), "larger")
        roundedDiskShape == roundedDisk(radius, roundingRadius, height)
        a == Max(Abs(original.lo[1]), Abs(original.hi[1]))
        b == Max(Abs(original.lo[2]), Abs(original.hi[2]))
        d == original.den
        beyond == a * a + b * b > largerDisk.hi[1] * largerDisk.hi[1] * d * d
        rx == Min(a, roundedDiskShape.hi[1] * d)
        ry == Min(b, roundedDiskShape.hi[2] * d)
    IN  IF original.empty \/ beyond THEN original
        ELSE IF roundedDiskShape.empty THEN [original EXCEPT !.empty = TRUE]
        ELSE [original EXCEPT
                !.lo = <<Max(original.lo[1], 0 - rx), Max(original.lo[2], 0 - ry),
                         Max(original.lo[3], roundedDiskShape.lo[3] * d)>>,
                !.hi = <<Min(original.hi[1], rx), Min(original.hi[2], ry),
                         Min(original.hi[3], roundedDiskShape.hi[3] * d)>>]

\* generateMarkingShape on a registered pattern name.
generateMarkingShape(shapeName, radius, roundingRadius, height) ==
    LET shape == parseSvgToCrossSection(shapeName)
        sizeOffset == 2
        sizedShape == scaleToSizeAndCenter(shape, radius * 2 + sizeOffset,
                                           radius * 2 + sizeOffset)
        extrudedShape == Extrude(sizedShape, height, "marking")
    IN  roundDiskEdges(extrudedShape, radius, roundingRadius, height)

\* ----------------------------------------------------------- assembly.ts
\* `undefined`: the value of qrCode / imageExtrude when nothing was generated.
Undefined == Solid("undefined", <<0, 0, 0>>, <<0, 0, 0>>, 1, TRUE)

\* qrCodeMaker(params) when it returns: a square of the requested size
\* (18 mm when the size is 0), `depth` high, standing on z = 0.
qrCodeMaker(size, depth) ==
    LET side == IF size = 0 THEN Mm(18) ELSE size
    IN  Solid("qr", <<0 - side \div 2, 0 - side \div 2, 0>>,
              <<side \div 2, side \div 2, depth>>, 1, FALSE)

\* imageExtrudeMaker(params) when it returns: a centred square of side `side`.
imageExtrudeMaker(side, depth) ==
    Solid("image", <<0 - side \div 2, 0 - side \div 2, 0>>,
          <<side \div 2, side \div 2, depth>>, 1, FALSE)

\* Variant of the flat branch: the spread offset without its 1 mm margin.
LayoutFlatNoMargin(p, disk, marking, centerDisk, qrCode, imageExtrude) ==
    LET offset == 2 * p.radius
    IN  <<disk, Translate(marking, <<offset, 0, 0>>),
          Translate(centerDisk, <<0, offset, 0>>)>>
        \o (IF qrCode # Undefined THEN <<Translate(qrCode, <<0 - offset, 0, 0>>)>>
            ELSE <<>>)
        \o (IF imageExtrude # Undefined
            THEN <<Translate(imageExtrude, <<0, 0 - offset, 0>>)>>
            ELSE <<>>)

\* The `flat` branch of assembleMakerchipShapes.
LayoutFlat(p, disk, marking, centerDisk, qrCode, imageExtrude) ==
    LET offset == 2 * p.radius + Mm(1)
        qrSize == IF p.qrCodeSettings.size = 0 THEN Mm(18) ELSE p.qrCodeSettings.size
        height == (imageExtrude.hi[2] - imageExtrude.lo[2]) \div imageExtrude.den
    IN  <<disk, Translate(marking, <<offset, 0, 0>>),
          Translate(centerDisk, <<0, offset, 0>>)>>
        \o (IF qrCode # Undefined
            THEN <<Translate(qrCode, <<0 - (p.radius + qrSize \div 2 + Mm(1)), 0, 0>>)>>
            ELSE <<>>)
        \o (IF imageExtrude # Undefined
            THEN <<Translate(imageExtrude,
                             <<0, 0 - (p.radius + height \div 2 + Mm(1)), 0>>)>>
            ELSE <<>>)

\* Variant of the printable branch: the QR slot is pushed without the
\* `if (qrCode)` test.
LayoutPrintablePushAlways(p, disk, marking, centerDisk, qrCode, imageExtrude) ==
    <<disk, centerDisk, marking,
      Translate(qrCode, <<0, 0, p.height - qrCode.hi[3] \div qrCode.den>>)>>
    \o (IF imageExtrude # Undefined THEN <<MirrorX(imageExtrude)>> ELSE <<>>)

\* Variant of the printable branch: the QR part is left where it was generated.
LayoutPrintableQrUnmoved(p, disk, marking, centerDisk, qrCode, imageExtrude) ==
    <<disk, centerDisk, marking>>
    \o (IF qrCode # Undefined THEN <<qrCode>> ELSE <<>>)
    \o (IF imageExtrude # Undefined THEN <<MirrorX(imageExtrude)>> ELSE <<>>)

\* Variant of the printable branch: the flat branch's push order.
LayoutPrintableMarkingFirst(p, disk, marking, centerDisk, qrCode, imageExtrude) ==
    <<disk, marking, centerDisk>>
    \o (IF qrCode # Undefined
        THEN <<Translate(qrCode, <<0, 0, p.height - qrCode.hi[3] \div qrCode.den>>)>>
        ELSE <<>>)
    \o (IF imageExtrude # Undefined THEN <<MirrorX(imageExtrude)>> ELSE <<>>)

\* The `printable` branch of assembleMakerchipShapes.
LayoutPrintable(p, disk, marking, centerDisk, qrCode, imageExtrude) ==
    <<disk, centerDisk, marking>>
    \o (IF qrCode # Undefined
        THEN <<Translate(qrCode, <<0, 0, p.height - qrCode.hi[3] \div qrCode.den>>)>>
        ELSE <<>>)
    \o (IF imageExtrude # Undefined THEN <<MirrorX(imageExtrude)>> ELSE <<>>)

\* if (flat) ... else if (printable) ...; any other value pushes nothing.
Layout(assemblyType, p, disk, marking, centerDisk, qrCode, imageExtrude) ==
    IF assemblyType = "flat"
    THEN LayoutFlat(p, disk, marking, centerDisk, qrCode, imageExtrude)
    ELSE IF assemblyType = "printable"
    THEN LayoutPrintable(p, disk, marking, centerDisk, qrCode, imageExtrude)
    ELSE <<>>

\* ------------------------------------------------------- threeMfExport.ts
\* Variant: no repeat of extruder 4.
extruderForPartUnclamped(i) == i + 1

extruderForPart(i) == IF i < 4 THEN i + 1 ELSE 4

\* shapes.map((shape, i) => ({id: i + 1, ...})).
Meshes(shapes) == [i \in 1..Len(shapes) |-> [id |-> i, shape |-> shapes[i]]]

\* Variant: the component takes the id meshes.length.
ComponentsIdOfLastMesh(ms) ==
    <<[id |-> Len(ms), children |-> [i \in 1..Len(ms) |-> ms[i].id]]>>

\* The single component: id meshes.length + 1, the meshes' ids as children.
Components(ms) ==
    <<[id |-> Len(ms) + 1, children |-> [i \in 1..Len(ms) |-> ms[i].id]]>>

Items(cs) == [i \in 1..Len(cs) |-> [objectID |-> cs[i].id]]

\* One <part> element of model_settings.config for loop index i.
PartXml(i) == [id |-> i + 1, extruder |-> extruderForPart(i)]

\* ------------------------------------------------------------------ cli.ts
\* values.x || dflt on an option string.
OrDefault(v, dflt) == IF v = "" THEN dflt ELSE v

\* main()'s params object, built from the parsed option values.
CliParams(values) ==
    [radius |-> values.radius, height |-> values.height,
     roundingRadius |-> values.rounding, centerCircleRadius |-> values.center,
     assemblyType |-> OrDefault(values.assembly, "flat"),
     markings |-> OrDefault(values.markings, "makerChipV1"),
     qrCodeSettings |-> [enabled |-> values.qrEnabled, size |-> values.qrSize],
     imageExtrudeSettings |-> [enabled |-> values.imageEnabled]]

\* ------------------------------------------------------------------ state
VARIABLES
    values,        \* cli.ts: the parsed options and the output extension
    env,           \* what the QR / image generators do when called
    pc,            \* position of the run
    params,        \* main()'s params object
    assemblyType,  \* second argument of assembleMakerchipShapes
    profile,       \* generateDiskProfile's clampedRounding and returned profile
    disk, marking, centerDisk, qrCode, imageExtrude,
    invoked,       \* the embedded generators that were called
    logged,        \* console.error messages
    error,         \* the Error in flight, or NoError
    asm,           \* assembleMakerchipShapes: "idle", "running", "returned", "rejected"
    allShapes,     \* the array assembleMakerchipShapes builds and returns
    meshes, components, items,
    partsCount, i, partsXml, config,   \* generateModelSettingsConfig
    result,        \* the ExportResult / the composed Manifold, or NoResult
    files,         \* output files written
    exitCode,      \* process exit status, -1 while running
    args,          \* arguments of a library function called on its own, or NoArgs
    ret            \* what that call returned, or NoRet

vars == <<values, env, pc, params, assemblyType, profile, disk, marking, centerDisk, qrCode,
          imageExtrude, invoked, logged, error, asm, allShapes, meshes, components,
          items, partsCount, i, partsXml, config, result, files, exitCode, args, ret>>

asmVars == <<profile, disk, marking, centerDisk, qrCode, imageExtrude, invoked, allShapes>>

exportVars == <<meshes, components, items, partsCount, i, partsXml, config>>

NoError == [kind |-> "none"]

NoResult == [kind |-> "none"]

NoParams == [markings |-> "none"]

NoConfig == [objectId |-> 0, parts |-> <<>>]

NoProfile == [clampedRounding |-> 0, bounds |-> EmptyCs]

NoArgs == [fn |-> "none"]

NoRet == [kind |-> "none"]

\* ----------------------------------------------------------------- inputs
AssemblyFlags == {"", "flat", "printable", "stacked"}

MarkingFlags == {"makerChipV1", "makerChipV2", "makerChipV99"}

QrCases ==
    {[enabled |-> FALSE, size |-> Mm(18), outcome |-> "unused", depth |-> 0],
     [enabled |-> TRUE, size |-> Mm(18), outcome |-> "throws", depth |-> 0]}
    \cup {[enabled |-> TRUE, size |-> Mm(s), outcome |-> "ok", depth |-> Mm(d)] :
            s \in 0..MaxQrSize, d \in 1..MaxQrDepth}

ImageCases ==
    {[enabled |-> FALSE, outcome |-> "unused", side |-> 0],
     [enabled |-> TRUE, outcome |-> "throws", side |-> 0]}
    \cup {[enabled |-> TRUE, outcome |-> "ok", side |-> Mm(2 * s)] : s \in 1..MaxImgHeight}

Idle ==
    /\ params = NoParams /\ assemblyType = "" /\ asm = "idle"
    /\ profile = NoProfile
    /\ disk = Undefined /\ marking = Undefined /\ centerDisk = Undefined
    /\ qrCode = Undefined /\ imageExtrude = Undefined
    /\ invoked = {} /\ logged = {} /\ error = NoError /\ allShapes = <<>>
    /\ meshes = <<>> /\ components = <<>> /\ items = <<>>
    /\ i = 0 /\ partsXml = <<>> /\ config = NoConfig
    /\ result = NoResult /\ files = {} /\ exitCode = -1
    /\ ret = NoRet

Init ==
    /\ \E ext \in {".glb", ".3mf"}, r \in 1..MaxRadius, h \in 1..MaxHeight,
          rr \in 0..MaxRounding, c \in 0..MaxCenter, a \in AssemblyFlags,
          m \in MarkingFlags, q \in QrCases, im \in ImageCases :
         /\ values = [ext |-> ext, radius |-> Mm(r), height |-> Mm(h),
                      rounding |-> Mm(rr), center |-> Mm(c), assembly |-> a,
                      markings |-> m, qrEnabled |-> q.enabled, qrSize |-> q.size,
                      imageEnabled |-> im.enabled]
         /\ env = [qr |-> q.outcome, qrDepth |-> q.depth,
                   image |-> im.outcome, imageSide |-> im.side]
    /\ pc = "cli"
    /\ partsCount = 0
    /\ args = NoArgs
    /\ Idle

\* ---------------------------------------------------------------- actions
\* cli.ts main(): build params, then take the branch of the output extension.
CliMain ==
    /\ pc = "cli"
    /\ params' = CliParams(values)
    /\ pc' = IF values.ext = ".3mf" THEN "threeMfExport" ELSE "main"
    /\ UNCHANGED <<values, env, args, ret, assemblyType, asmVars, logged, error, asm,
                   exportVars, result, files, exitCode>>

\* Variant: the caller's assemblyType is passed on.
ExportAssemblyTypeFromParams(p) == p.assemblyType

\* threeMfExport(params): assembleMakerchipShapes(params, 'printable').
ExportAssemblyType(p) == "printable"

ThreeMfExport ==
    /\ pc = "threeMfExport"
    /\ assemblyType' = ExportAssemblyType(params)
    /\ asm' = "running"
    /\ pc' = "asm_disk"
    /\ UNCHANGED <<values, env, args, ret, params, asmVars, logged, error, exportVars,
                   result, files, exitCode>>

\* The default export's main(params): assemblyType = params.assemblyType.
Main ==
    /\ pc = "main"
    /\ assemblyType' = params.assemblyType
    /\ asm' = "running"
    /\ pc' = "asm_disk"
    /\ UNCHANGED <<values, env, args, ret, params, asmVars, logged, error, exportVars,
                   result, files, exitCode>>

AsmDisk ==
    /\ pc = "asm_disk"
    /\ profile' = [clampedRounding |-> ClampRounding(params.roundingRadius, params.height),
                   bounds |-> generateDiskProfile(params.radius, params.roundingRadius,
                                                  params.height)]
    /\ disk' = roundedDisk(params.radius, params.roundingRadius, params.height)
    /\ pc' = "asm_marking"
    /\ UNCHANGED <<values, env, args, ret, params, assemblyType, marking, centerDisk, qrCode,
                   imageExtrude, invoked, allShapes, logged, error, asm,
                   exportVars, result, files, exitCode>>

\* await generateMarkingShape(...): parseSvgToCrossSection throws on an
\* unknown name; nothing up to cli.ts's main().catch handles the rejection.
AsmMarking ==
    /\ pc = "asm_marking"
    /\ IF UnknownShape(params.markings)
       THEN /\ error' = UnknownShapeError(params.markings)
            /\ asm' = "rejected"
            /\ pc' = "cli_catch"
            /\ UNCHANGED marking
       ELSE /\ marking' = generateMarkingShape(params.markings, params.radius,
                                               params.roundingRadius, params.height)
            /\ pc' = "asm_center"
            /\ UNCHANGED <<error, asm>>
    /\ UNCHANGED <<values, env, args, ret, params, assemblyType, profile, disk, centerDisk, qrCode,
                   imageExtrude, invoked, allShapes, logged, exportVars, result,
                   files, exitCode>>

AsmCenterDisk ==
    /\ pc = "asm_center"
    /\ centerDisk' = generateCenterDisk(params.centerCircleRadius, params.height)
    /\ pc' = "asm_qr"
    /\ UNCHANGED <<values, env, args, ret, params, assemblyType, profile, disk, marking, qrCode,
                   imageExtrude, invoked, allShapes, logged, error, asm,
                   exportVars, result, files, exitCode>>

\* if (params.qrCodeSettings?.enabled) { try { qrCode = await qrCodeMaker(...) }
\* catch (error) { console.error(...) } }
AsmQrCode ==
    /\ pc = "asm_qr"
    /\ \/ /\ ~params.qrCodeSettings.enabled
          /\ UNCHANGED <<qrCode, invoked, logged>>
       \/ /\ params.qrCodeSettings.enabled
          /\ env.qr = "ok"
          /\ qrCode' = qrCodeMaker(params.qrCodeSettings.size, env.qrDepth)
          /\ invoked' = invoked \cup {"qr"}
          /\ UNCHANGED logged
       \/ /\ params.qrCodeSettings.enabled
          /\ env.qr = "throws"
          /\ invoked' = invoked \cup {"qr"}
          /\ logged' = logged \cup {"Error generating QR code:"}
          /\ UNCHANGED qrCode
    /\ pc' = "asm_image"
    /\ UNCHANGED <<values, env, args, ret, params, assemblyType, profile, disk, marking, centerDisk,
                   imageExtrude, allShapes, error, asm, exportVars, result,
                   files, exitCode>>

AsmImageExtrude ==
    /\ pc = "asm_image"
    /\ \/ /\ ~params.imageExtrudeSettings.enabled
          /\ UNCHANGED <<imageExtrude, invoked, logged>>
       \/ /\ params.imageExtrudeSettings.enabled
          /\ env.image = "ok"
          /\ imageExtrude' = imageExtrudeMaker(env.imageSide, Mm(1))
          /\ invoked' = invoked \cup {"image"}
          /\ UNCHANGED logged
       \/ /\ params.imageExtrudeSettings.enabled
          /\ env.image = "throws"
          /\ invoked' = invoked \cup {"image"}
          /\ logged' = logged \cup {"Error generating image extrude:"}
          /\ UNCHANGED imageExtrude
    /\ pc' = "asm_layout"
    /\ UNCHANGED <<values, env, args, ret, params, assemblyType, profile, disk, marking, centerDisk,
                   qrCode, allShapes, error, asm, exportVars, result, files,
                   exitCode>>

\* The layout branches and `return allShapes`, back to the awaiting caller.
AsmLayout ==
    /\ pc = "asm_layout"
    /\ allShapes' = Layout(assemblyType, params, disk, marking, centerDisk, qrCode,
                           imageExtrude)
    /\ asm' = "returned"
    /\ pc' = IF values.ext = ".3mf" THEN "export_meshes" ELSE "main_compose"
    /\ UNCHANGED <<values, env, args, ret, params, assemblyType, profile, disk, marking, centerDisk,
                   qrCode, imageExtrude, invoked, logged, error, exportVars,
                   result, files, exitCode>>

\* threeMfExport: meshes, the component, the item; then the call of
\* generateModelSettingsConfig(meshes.length).
ExportMeshes ==
    /\ pc = "export_meshes"
    /\ meshes' = Meshes(allShapes)
    /\ components' = Components(meshes')
    /\ items' = Items(components')
    /\ partsCount' = Len(meshes')
    /\ i' = 0
    /\ partsXml' = <<>>
    /\ pc' = "export_config"
    /\ UNCHANGED <<values, env, args, ret, params, assemblyType, asmVars, logged, error, asm,
                   config, result, files, exitCode>>

\* generateModelSettingsConfig: one turn of the for loop.
ConfigLoop ==
    /\ pc = "export_config"
    /\ i < partsCount
    /\ partsXml' = Append(partsXml, PartXml(i))
    /\ i' = i + 1
    /\ UNCHANGED <<values, env, args, ret, pc, params, assemblyType, asmVars, logged, error,
                   asm, meshes, components, items, partsCount, config, result,
                   files, exitCode>>

\* generateModelSettingsConfig: the loop is over, the config is returned.
ConfigReturn ==
    /\ pc = "export_config"
    /\ ~(i < partsCount)
    /\ config' = [objectId |-> partsCount + 1, parts |-> partsXml]
    /\ pc' = "export_zip"
    /\ UNCHANGED <<values, env, args, ret, params, assemblyType, asmVars, logged, error, asm,
                   meshes, components, items, partsCount, i, partsXml, result,
                   files, exitCode>>

\* threeMfExport: zipSync and the returned ExportResult.
ExportReturn ==
    /\ pc = "export_zip"
    /\ result' = [kind |-> "model/3mf", meshes |-> meshes, components |-> components,
                  items |-> items, config |-> config]
    /\ pc' = "cli_write"
    /\ UNCHANGED <<values, env, args, ret, params, assemblyType, asmVars, logged, error, asm,
                   exportVars, files, exitCode>>

\* main(): Manifold.compose(allShapes).
MainCompose ==
    /\ pc = "main_compose"
    /\ result' = [kind |-> "Manifold", parts |-> allShapes]
    /\ pc' = "cli_write"
    /\ UNCHANGED <<values, env, args, ret, params, assemblyType, asmVars, logged, error, asm,
                   exportVars, files, exitCode>>

\* cli.ts: the output file is written (the .glb branch first checks that the
\* result is a Manifold); main() resolves and the process ends with status 0.
CliWrite ==
    /\ pc = "cli_write"
    /\ IF values.ext = ".glb" /\ result.kind # "Manifold"
       THEN /\ logged' = logged \cup {"Error: Script did not return a valid Manifold object"}
            /\ exitCode' = 1
            /\ UNCHANGED files
       ELSE /\ files' = files \cup {values.ext}
            /\ exitCode' = 0
            /\ UNCHANGED logged
    /\ pc' = "exited"
    /\ UNCHANGED <<values, env, args, ret, params, assemblyType, asmVars, error, asm,
                   exportVars, result>>

\* main().catch(err => { console.error('Error:', err.message); process.exit(1) }).
CliCatch ==
    /\ pc = "cli_catch"
    /\ logged' = logged \cup {"Error:"}
    /\ exitCode' = 1
    /\ pc' = "exited"
    /\ UNCHANGED <<values, env, args, ret, params, assemblyType, asmVars, error, asm,
                   exportVars, result, files>>

Next ==
    \/ CliMain \/ ThreeMfExport \/ Main
    \/ AsmDisk \/ AsmMarking \/ AsmCenterDisk \/ AsmQrCode \/ AsmImageExtrude
    \/ AsmLayout
    \/ ExportMeshes \/ ConfigLoop \/ ConfigReturn \/ ExportReturn
    \/ MainCompose \/ CliWrite \/ CliCatch

Spec == Init /\ [][Next]_vars

\* generateModelSettingsConfig on its own, for every parts count.
InitSettings ==
    /\ values = [ext |-> ".3mf"]
    /\ env = [qr |-> "unused"]
    /\ pc = "export_config"
    /\ partsCount \in 0..MaxPartsCount
    /\ args = NoArgs
    /\ Idle

NextSettings == ConfigLoop \/ ConfigReturn

SpecSettings == InitSettings /\ [][NextSettings]_vars

\* scaleToSizeAndCenter on its own: cross-sections given by their bounds, with
\* widths and heights from zero up, and targets in whole millimetres.
InitScale ==
    /\ values = [ext |-> ".glb"]
    /\ env = [qr |-> "unused"]
    /\ pc = "scale"
    /\ partsCount = 0
    /\ \E x \in {-1, 0}, w \in 0..MaxPatternSize, h \in 0..MaxPatternSize,
          tw \in 1..MaxTarget, th \in 1..MaxTarget :
         args = [fn |-> "scaleToSizeAndCenter",
                 crossSection |-> [empty |-> FALSE, lo |-> <<x, 0 - x>>,
                                   hi |-> <<x + w, h - x>>, den |-> 1],
                 targetWidth |-> Mm(tw), targetHeight |-> Mm(th)]
    /\ Idle

ScaleCall ==
    /\ pc = "scale"
    /\ ret' = [kind |-> "CrossSection",
               value |-> scaleToSizeAndCenter(args.crossSection, args.targetWidth,
                                              args.targetHeight)]
    /\ pc' = "scaled"
    /\ UNCHANGED <<values, env, args, params, assemblyType, asmVars, logged, error, asm,
                   exportVars, result, files, exitCode>>

NextScale == ScaleCall

SpecScale == InitScale /\ [][NextScale]_vars

\* assembleMakerchipShapes called directly, up to the marking, for radii in
\* tens of millimetres (the schema allows 10 to 100).
InitMarking ==
    /\ values = [ext |-> ".glb"]
    /\ env = [qr |-> "unused"]
    /\ pc = "asm_disk"
    /\ \E t \in 1..MaxRadiusTens, h \in 1..MaxHeight, rr \in 0..MaxRounding,
          m \in MarkingFlags :
         params = [radius |-> Mm(10 * t), height |-> Mm(h), roundingRadius |-> Mm(rr),
                   centerCircleRadius |-> Mm(1), assemblyType |-> "flat",
                   markings |-> m,
                   qrCodeSettings |-> [enabled |-> FALSE, size |-> Mm(18)],
                   imageExtrudeSettings |-> [enabled |-> FALSE]]
    /\ assemblyType = "flat" /\ asm = "running"
    /\ profile = NoProfile
    /\ disk = Undefined /\ marking = Undefined /\ centerDisk = Undefined
    /\ qrCode = Undefined /\ imageExtrude = Undefined
    /\ invoked = {} /\ logged = {} /\ error = NoError /\ allShapes = <<>>
    /\ meshes = <<>> /\ components = <<>> /\ items = <<>>
    /\ partsCount = 0 /\ i = 0 /\ partsXml = <<>> /\ config = NoConfig
    /\ result = NoResult /\ files = {} /\ exitCode = -1
    /\ args = NoArgs /\ ret = NoRet

NextMarking == AsmDisk \/ AsmMarking

SpecMarking == InitMarking /\ [][NextMarking]_vars

\* ------------------------------------------------------------- properties
B(b) == IF b THEN 1 ELSE 0

Labels(shapes) == [k \in 1..Len(shapes) |-> shapes[k].label]

LabelSet(shapes) == {shapes[k].label : k \in 1..Len(shapes)}

Returned(type) == asm = "returned" /\ assemblyType = type

QrFailed == "qr" \in invoked /\ env.qr = "throws"

ImageFailed == "image" \in invoked /\ env.image = "throws"

Exported == result.kind = "model/3mf"

\* C1 as stated: the printable assembly returns 3 + [QR enabled] + [image
\* enabled] parts, whatever the sub-generators do.
C1_CountByEnabledFlags ==
    Returned("printable") =>
        Len(allShapes) = 3 + B(params.qrCodeSettings.enabled)
                           + B(params.imageExtrudeSettings.enabled)

\* C1 amended: the printable assembly returns 3 parts, plus one for the QR
\* code when it is enabled and its generator returned a shape, plus one for
\* the image extrude when it is enabled and its generator returned a shape.
C1_CountByGeneratedParts ==
    Returned("printable") =>
        Len(allShapes) = 3 + B(params.qrCodeSettings.enabled /\ env.qr = "ok")
                           + B(params.imageExtrudeSettings.enabled /\ env.image = "ok")

C1_Witness ==
    /\ Returned("printable")
    /\ QrFailed
    /\ params.imageExtrudeSettings.enabled /\ env.image = "ok"
    /\ Len(allShapes) = 4

\* C2: once an enabled sub-generator has failed, the assembly does not raise;
\* when it has returned, the failed sub-shape is absent, disk, marking and
\* center disk are present, and the other generator was still invoked when
\* enabled and its part is included when it returned one.
C2_FailSoft ==
    (QrFailed \/ ImageFailed) =>
        /\ asm # "rejected" /\ error = NoError
        /\ pc \notin {"asm_image", "asm_layout"} =>
              /\ asm = "returned"
              /\ {"disk", "marking", "center"} \subseteq LabelSet(allShapes)
              /\ QrFailed => "qr" \notin LabelSet(allShapes)
              /\ ImageFailed => "image" \notin LabelSet(allShapes)
              /\ params.imageExtrudeSettings.enabled => "image" \in invoked
              /\ params.qrCodeSettings.enabled => "qr" \in invoked
              /\ env.image = "ok" => "image" \in LabelSet(allShapes)
              /\ env.qr = "ok" => "qr" \in LabelSet(allShapes)

\* The fail-soft behaviour of C2 when the assembler is given one of its two
\* layouts.
FailSoftInRecognisedLayout ==
    assemblyType \in {"flat", "printable"} => C2_FailSoft

\* C3: the printable assembly is disk, center disk, marking, then the QR part
\* and then the image part when present; in the 3MF export parts 1, 2, 3 are
\* disk, center disk and marking, with extruders 1, 2, 3.
C3_PrintableOrder ==
    /\ Returned("printable") =>
          Labels(allShapes) = <<"disk", "center", "marking">>
                              \o (IF qrCode # Undefined THEN <<"qr">> ELSE <<>>)
                              \o (IF imageExtrude # Undefined THEN <<"image">> ELSE <<>>)
    /\ Exported =>
          /\ Len(result.meshes) >= 3 /\ Len(result.config.parts) >= 3
          /\ \A k \in 1..3 :
                /\ result.meshes[k].id = k
                /\ result.meshes[k].shape.label = <<"disk", "center", "marking">>[k]
                /\ result.config.parts[k] = [id |-> k, extruder |-> k]

C3_Witness ==
    /\ Exported
    /\ Labels(allShapes) = <<"disk", "center", "marking", "qr", "image">>

\* C4: for every parts count, the part of 0-based index j gets extruder j + 1
\* when j < 4 and 4 otherwise, always within 1..4; five parts get 1,2,3,4,4.
C4_ExtruderAssignment ==
    /\ \A k \in 1..Len(partsXml) :
          /\ partsXml[k].extruder \in 1..4
          /\ k - 1 < 4 => partsXml[k].extruder = k
          /\ k - 1 >= 4 => partsXml[k].extruder = 4
    /\ pc = "export_zip" =>
          /\ Len(config.parts) = partsCount
          /\ config.parts = partsXml
          /\ partsCount = 5 =>
                [k \in 1..5 |-> config.parts[k].extruder] = <<1, 2, 3, 4, 4>>

C4_Witness ==
    /\ pc = "export_zip"
    /\ partsCount = 5
    /\ config.parts[5].extruder = 4

\* C5: the 3MF export assembles with the printable layout whatever
\* params.assemblyType is: the exported parts are the printable stack (in
\* order, none spread in x or y, QR top at the chip height, image mirrored)
\* with extruders by position.
C5_ExportAlwaysPrintable ==
    /\ (values.ext = ".3mf" /\ asm # "idle") => assemblyType = "printable"
    /\ Exported =>
          /\ Labels(allShapes) = <<"disk", "center", "marking">>
                \o (IF params.qrCodeSettings.enabled /\ env.qr = "ok"
                    THEN <<"qr">> ELSE <<>>)
                \o (IF params.imageExtrudeSettings.enabled /\ env.image = "ok"
                    THEN <<"image">> ELSE <<>>)
          /\ Len(result.meshes) = Len(allShapes)
          /\ \A k \in 1..Len(result.meshes) :
                /\ result.meshes[k].shape = allShapes[k]
                /\ result.meshes[k].shape.moved[1] = 0
                /\ result.meshes[k].shape.moved[2] = 0
                /\ result.meshes[k].shape.label = "qr" =>
                      result.meshes[k].shape.hi[3] = params.height
                /\ result.meshes[k].shape.label = "image" =>
                      result.meshes[k].shape.mirrored
                /\ result.config.parts[k].extruder = Min(k, 4)

C5_Witness ==
    /\ Exported
    /\ params.assemblyType \in {"flat", "stacked"}
    /\ Len(result.meshes) = 5

\* Two bounding boxes share interior points (coordinates compared across
\* denominators); an empty solid has no box.
Overlap(a, b) ==
    /\ ~a.empty /\ ~b.empty
    /\ \A ax \in 1..3 : /\ a.lo[ax] * b.den < b.hi[ax] * a.den
                        /\ b.lo[ax] * a.den < a.hi[ax] * b.den

\* C6: in the flat assembly no two parts' bounding boxes overlap.
C6_FlatNoOverlap ==
    Returned("flat") =>
        \A j, k \in 1..Len(allShapes) :
            j < k => ~Overlap(allShapes[j], allShapes[k])

\* C7 as stated: in the flat assembly every part but the disk is translated
\* by at least 2*radius + 1 along some axis.
C7_AllByFullOffset ==
    Returned("flat") =>
        \A k \in 2..Len(allShapes) :
            \E ax \in 1..3 :
                Abs(allShapes[k].moved[ax]) >= 2 * params.radius + Mm(1)

\* C7 amended: in the flat assembly the disk stays at the origin, the marking
\* is translated by exactly 2*radius + 1 along +x and the center disk by the
\* same along +y; the QR part is translated by radius + qrSize/2 + 1 along -x
\* (qrSize 18 when given as 0) and the image part by radius + (its
\* bounding-box y extent)/2 + 1 along -y, which reaches 2*radius + 1 exactly
\* when qrSize (the y extent) is at least 2*radius.
C7_FlatTranslations ==
    Returned("flat") =>
        \A k \in 1..Len(allShapes) :
            LET s == allShapes[k]
                off == 2 * params.radius + Mm(1)
                qs == IF params.qrCodeSettings.size = 0 THEN Mm(18)
                      ELSE params.qrCodeSettings.size
                ext == s.hi[2] - s.lo[2]
            IN  /\ s.label = "disk" => s.moved = <<0, 0, 0>>
                /\ s.label = "marking" => s.moved = <<off, 0, 0>>
                /\ s.label = "center" => s.moved = <<0, off, 0>>
                /\ s.label = "qr" =>
                      /\ s.moved[2] = 0 /\ s.moved[3] = 0
                      /\ 2 * (0 - s.moved[1]) = 2 * params.radius + qs + Mm(2)
                      /\ (0 - s.moved[1] >= off) <=> (qs >= 2 * params.radius)
                /\ s.label = "image" =>
                      /\ s.moved[1] = 0 /\ s.moved[3] = 0
                      /\ 2 * (0 - s.moved[2]) = 2 * params.radius + ext + Mm(2)
                      /\ (0 - s.moved[2] >= off) <=> (ext >= 2 * params.radius)

C7_Witness ==
    /\ Returned("flat")
    /\ Labels(allShapes) = <<"disk", "marking", "center", "qr", "image">>
    /\ 0 - allShapes[4].moved[1] < 2 * params.radius + Mm(1)

C9_UnrecognisedTypeRejected ==
    (pc = "exited" /\ params.assemblyType \notin {"flat", "printable"}) =>
        (exitCode # 0 /\ files = {})

\* C10: the rounding radius of the disk profile is min(roundingRadius,
\* height/2): at most height/2, height/2 when roundingRadius is larger,
\* roundingRadius otherwise; building the profile raises nothing.
C10_ClampedRounding ==
    profile # NoProfile =>
        /\ 2 * profile.clampedRounding <= params.height
        /\ 2 * params.roundingRadius > params.height =>
              2 * profile.clampedRounding = params.height
        /\ 2 * params.roundingRadius <= params.height =>
              profile.clampedRounding = params.roundingRadius
        /\ pc = "asm_marking" => (error = NoError /\ asm = "running")

C10_Witness ==
    /\ profile # NoProfile
    /\ 2 * params.roundingRadius > params.height
    /\ 2 * profile.clampedRounding = params.height

\* C13: in the printable assembly a QR part's top face is at the chip height,
\* whatever height the generator gave it; it is moved along z only, by
\* height minus its generated top.
C13_QrFlushWithTop ==
    Returned("printable") =>
        \A k \in 1..Len(allShapes) :
            allShapes[k].label = "qr" =>
                /\ allShapes[k].hi[3] = params.height * allShapes[k].den
                /\ allShapes[k].moved = <<0, 0, params.height - env.qrDepth>>
                /\ allShapes[k].lo[1] = qrCode.lo[1] /\ allShapes[k].hi[1] = qrCode.hi[1]
                /\ allShapes[k].lo[2] = qrCode.lo[2] /\ allShapes[k].hi[2] = qrCode.hi[2]

C13_Witness ==
    /\ Returned("printable")
    /\ Len(allShapes) >= 4
    /\ allShapes[4].label = "qr"
    /\ env.qrDepth # params.height
    /\ allShapes[4].hi[3] = params.height

\* C14: with roundingRadius = 0 the disk is built without error, and the
\* profile's bounds are those of the plain rectangle: 0..radius across,
\* 0..height up (the disk's box is that rectangle revolved).
C14_SharpRimProfile ==
    (disk # Undefined /\ params.roundingRadius = 0) =>
        /\ profile.clampedRounding = 0
        /\ ~profile.bounds.empty
        /\ profile.bounds.lo = <<0, 0>>
        /\ profile.bounds.hi = <<params.radius, params.height>>
        /\ profile.bounds.den = 1
        /\ ~disk.empty
        /\ disk.lo = <<0 - params.radius, 0 - params.radius, 0>>
        /\ disk.hi = <<params.radius, params.radius, params.height>>
        /\ pc = "asm_marking" => (error = NoError /\ asm = "running")

C14_Witness ==
    /\ pc = "asm_marking"
    /\ params.roundingRadius = 0
    /\ profile.bounds.hi = <<params.radius, params.height>>
    /\ error = NoError

\* C16: in an export of n parts the meshes have ids 1..n in assembly order,
\* the one component has id n+1 and the children 1..n in order, the one item
\* references n+1, and the config names object n+1 with part ids 1..n.
C16_IdsAgree ==
    Exported =>
        LET n == Len(allShapes)
        IN  /\ Len(result.meshes) = n
            /\ \A k \in 1..n : /\ result.meshes[k].id = k
                               /\ result.meshes[k].shape = allShapes[k]
            /\ Len(result.components) = 1
            /\ result.components[1].id = n + 1
            /\ result.components[1].children = [k \in 1..n |-> k]
            /\ \A k \in 1..n : result.components[1].id # result.meshes[k].id
            /\ Len(result.items) = 1
            /\ result.items[1].objectID = n + 1
            /\ result.config.objectId = n + 1
            /\ Len(result.config.parts) = n
            /\ \A k \in 1..n : result.config.parts[k].id = k

C16_Witness ==
    /\ Exported
    /\ Len(result.meshes) = 5
    /\ result.components[1].id = 6
    /\ result.config.objectId = 6

\* Bounding-box containment of solid m in solid d (coordinates over den).
Contained(m, d) ==
    m.empty \/ \A ax \in 1..3 : /\ d.lo[ax] * m.den <= m.lo[ax] * d.den
                                /\ m.hi[ax] * d.den <= d.hi[ax] * m.den

\* C11: the marking generateMarkingShape returns lies inside the rounded disk
\* of the same radius, roundingRadius and height, for every radius and every
\* pattern that fits the square of side 2 * radius + 0.1.
C11_MarkingInsideDisk ==
    (pc = "asm_center" /\ marking # Undefined) => Contained(marking, disk)

\* The marking stays inside the disk while the square's corners are within
\* radius + 10 of the axis (radii of 10 and 20 mm here).
C11_InsideForSmallRadius ==
    (pc = "asm_center" /\ marking # Undefined /\ params.radius <= Mm(20)) =>
        Contained(marking, disk)

\* Width and height of scaleToSizeAndCenter's argument and of its result.
ArgWidth == args.crossSection.hi[1] - args.crossSection.lo[1]

ArgHeight == args.crossSection.hi[2] - args.crossSection.lo[2]

RetWidth == ret.value.hi[1] - ret.value.lo[1]

RetHeight == ret.value.hi[2] - ret.value.lo[2]

Scaled == pc = "scaled" /\ ArgWidth > 0 /\ ArgHeight > 0

RetCentered ==
    /\ ret.value.lo[1] + ret.value.hi[1] = 0
    /\ ret.value.lo[2] + ret.value.hi[2] = 0

\* C12 as stated: for any target, the result is centred and its larger
\* dimension equals the target of that axis.
C12_LargerDimensionHitsTarget ==
    Scaled =>
        /\ RetCentered
        /\ RetWidth > RetHeight => RetWidth = args.targetWidth * ret.value.den
        /\ RetHeight > RetWidth => RetHeight = args.targetHeight * ret.value.den
        /\ RetWidth = RetHeight => \/ RetWidth = args.targetWidth * ret.value.den
                                   \/ RetHeight = args.targetHeight * ret.value.den

\* C12: for a cross-section of non-zero width and height and positive targets
\* the result is centred on the origin, scaled on both axes by
\* min(targetWidth / width, targetHeight / height), fits the target rectangle,
\* and the dimension on the axis of the smaller ratio equals its target; with
\* equal targets that is the larger dimension.
C12_LimitingDimensionHitsTarget ==
    Scaled =>
        LET d == ret.value.den
            byWidth == args.targetWidth * ArgHeight <= args.targetHeight * ArgWidth
        IN  /\ RetCentered
            /\ d > 0
            /\ RetWidth * ArgHeight = RetHeight * ArgWidth
            /\ RetWidth <= args.targetWidth * d
            /\ RetHeight <= args.targetHeight * d
            /\ byWidth => RetWidth = args.targetWidth * d
            /\ ~byWidth => RetHeight = args.targetHeight * d
            /\ args.targetWidth = args.targetHeight =>
                   /\ ArgWidth >= ArgHeight => RetWidth = args.targetWidth * d
                   /\ ArgHeight >= ArgWidth => RetHeight = args.targetHeight * d

C12_Witness ==
    /\ Scaled
    /\ ArgWidth > ArgHeight
    /\ args.targetWidth * ArgHeight > args.targetHeight * ArgWidth
    /\ RetHeight = args.targetHeight * ret.value.den
    /\ RetWidth < args.targetWidth * ret.value.den
    /\ RetCentered

\* C15: a cross-section whose bounds have zero width or zero height comes
\* back as it was given, for any target.
C15_DegenerateUnchanged ==
    (pc = "scaled" /\ (ArgWidth = 0 \/ ArgHeight = 0)) =>
        /\ ret.kind = "CrossSection"
        /\ ret.value = args.crossSection

C15_Witness ==
    /\ pc = "scaled"
    /\ ArgWidth = 0 /\ ArgHeight > 0
    /\ args.crossSection.lo # <<0, 0>>
    /\ ret.value = args.crossSection

=============================================================================
